---- MODULE Spec2Model ----
(***************************************************************************)
(* Discovery server of bitcoinx/chainkit (package discovery).              *)
(*                                                                         *)
(* Part I  (Spec)      : lifecycle of Server instances: Start, Stop, the   *)
(*                       bootstrap task dhtConnect, and the calls Announce *)
(*                       and Peers up to their DHT request.                *)
(* Part II (SpecPeers) : the background task of one Peers call: provider   *)
(*                       enumeration, per-candidate stream exchange,       *)
(*                       emission on the returned channel.                 *)
(* Part III (SpecContent): Publish and Join over the content store.        *)
(* Part IV (SpecAnnounce): one Announce call against the clock, and the    *)
(*                       stream handler it registers.                      *)
(*                                                                         *)
(* Every Server instance lives in its own process (the commands of cmd/    *)
(* build one Server per process), so an unrecovered panic ends that        *)
(* instance: its goroutines stop and the kernel drops its repository lock. *)
(***************************************************************************)
EXTENDS Integers, Sequences, FiniteSets, TLC

\* ------------------------------------------------------------------ bounds
MaxStarts == 2         \* Start calls over all instances
MaxCalls == 2          \* Announce/Peers calls over all instances

\* ------------------------------------------------------- program constants
NumBootstrapPeers == 5 \* len(bootstrapPeers)

\* two instances, on the same root directory or on two different ones
Servers == {1, 2}
Roots == {1, 2}

VARIABLES
    \* ---- Part I: Server fields and the machine they run on
    root,         \* s.root: the repository directory of each instance
    node,         \* s.node: "nil", "live" or "closed"
    connectedCh,  \* s.connectedCh: "open" or "closed"
    handler,      \* a stream handler is registered on the host of s.node
    repoLock,     \* per root: the instance holding the repository lock, 0 if free
    initialized,  \* per root: fsrepo.IsInitialized
    swarm,        \* per root: the port written under Addresses.Swarm, 0 if never set
    plugins,      \* per instance: plugins were loaded into the process
    startPc,      \* where the running Start call of each instance stands
    lastStart,    \* how the last Start call of each instance ended
    online,       \* the caller's view: Start returned nil and Stop was not called since
    starts,       \* per instance: Start calls made so far
    boot,         \* per instance: the running dhtConnect tasks, oldest first, each the
                  \* number of bootstrap peers it has tried
    bootDone,     \* per instance: a dhtConnect task ran to its end and closed connectedCh
    closes,       \* per instance: close(s.connectedCh) calls executed
    panicked,     \* per instance: the process died of a panic
    annPc,        \* where the running Announce call of each instance stands
    annLog,       \* what the current/last Announce call did to the host and the DHT
    annRes,       \* what the last Announce call returned
    prsPc,        \* where the running Peers call of each instance stands
    findIssued,   \* per instance: FindProvidersAsync calls issued
    calls,        \* number of Announce/Peers calls made so far
    \* ---- Part II: one Peers call on instance 1 and the network around it
    announced,    \* the PeerInfo the remote announcer serves on "/chainkit/0.1.0"
    pc,           \* where the background task of Peers stands
    ctxDone,      \* the caller cancelled ctx
    timedOut,     \* the 10 s timer of tctx fired
    reading,      \* the caller still receives from the returned channel
    query,        \* FindProvidersAsync: "none", "running" or "closed" (its channel is closed)
    sent,         \* the peer IDs the query has put on its channel
    peers,        \* the channel FindProvidersAsync returned: providers not yet taken
    cur,          \* p, the provider the loop is working on
    wire,         \* what the candidate sends on the stream opened for p
    peer,         \* the PeerInfo the task decoded and completed
    streams,      \* the streams the task opened and has not closed (by peer ID)
    ch,           \* the returned channel: "open" or "closed"
    out,          \* what the caller received from ch, in order
    hist,         \* the providers the loop took from peers and what became of each
    \* ---- Part III: Publish and Join calls and the content store of the overlay
    store,        \* the directories the overlay can resolve, each under its own identifier
    published,    \* what Publish returned: the identifier and the files it was given
    pub,          \* the running Publish call: its position, arguments, sandbox and result
    join,         \* the running Join call: its position, locals and result
    ops,          \* Publish/Join calls made so far
    \* ---- Part IV: one Announce call on instance 1, its contexts and its handler
    now,          \* the clock, in seconds
    ctx,          \* the context the caller passed to Announce
    cctx,         \* the context of line 277
    provided,     \* the return of s.dht.Provide: when, and with what
    annPeer,      \* the *PeerInfo the caller passed to Announce
    inbound       \* the inbound "/chainkit/0.1.0" streams the handler was run on

lifeVars == <<root, node, connectedCh, handler, repoLock, initialized, swarm,
              plugins, startPc, lastStart, online, starts, boot, bootDone,
              closes, panicked, annPc, annLog, annRes, prsPc, findIssued, calls>>

peersVars == <<announced, pc, ctxDone, timedOut, reading, query, sent, peers, cur,
               wire, peer, streams, ch, out, hist>>

contentVars == <<store, published, pub, join, ops>>

announceVars == <<now, ctx, cctx, provided, annPeer, inbound>>

vars == <<lifeVars, peersVars, contentVars, announceVars>>

\* ---------------------------------------------------------------- helpers
RECURSIVE SumOver(_, _)
SumOver(f, S) ==
    IF S = {} THEN 0
    ELSE LET x == CHOOSE y \in S : TRUE IN f[x] + SumOver(f, S \ {x})

Live(s) == node[s] = "live" /\ ~panicked[s]

\* fsrepo's lock on root r is released when its holder closes the repository
Release(s) == [r \in Roots |-> IF repoLock[r] = s THEN 0 ELSE repoLock[r]]

\* An unrecovered panic in the process of instance s: every goroutine of the
\* process stops and the kernel releases the lock file.
Panic(s) ==
    /\ panicked' = [panicked EXCEPT ![s] = TRUE]
    /\ repoLock' = Release(s)
    /\ online' = [online EXCEPT ![s] = FALSE]
    /\ startPc' = [startPc EXCEPT ![s] = "idle"]
    /\ boot' = [boot EXCEPT ![s] = <<>>]
    /\ annPc' = [annPc EXCEPT ![s] = "idle"]
    /\ prsPc' = [prsPc EXCEPT ![s] = "idle"]

\* New(root, port): connectedCh is made once, here, and never again
New(rt) ==
    /\ root = rt
    /\ node = [s \in Servers |-> "nil"]
    /\ connectedCh = [s \in Servers |-> "open"]
    /\ handler = [s \in Servers |-> FALSE]
    /\ startPc = [s \in Servers |-> "idle"]
    /\ lastStart = [s \in Servers |-> "none"]
    /\ online = [s \in Servers |-> FALSE]
    /\ boot = [s \in Servers |-> <<>>]
    /\ bootDone = [s \in Servers |-> FALSE]
    /\ closes = [s \in Servers |-> 0]
    /\ panicked = [s \in Servers |-> FALSE]
    /\ annPc = [s \in Servers |-> "idle"]
    /\ annLog = [s \in Servers |-> <<>>]
    /\ annRes = [s \in Servers |-> "none"]
    /\ prsPc = [s \in Servers |-> "idle"]
    /\ findIssued = [s \in Servers |-> 0]
    /\ plugins = [s \in Servers |-> FALSE]
    /\ starts = [s \in Servers |-> 0]

\* ------------------------------------------------- PeerInfo and its JSON
\* A Go slice is nil or holds elements
NilSlice == [isNil |-> TRUE, elems |-> <<>>]
Slice(q) == [isNil |-> FALSE, elems |-> q]

\* type PeerInfo, lines 48-52; &PeerInfo{} is the zero value
PeerInfo(id, ips, port) == [NodeID |-> id, IP |-> ips, TendermintP2PPort |-> port]
ZeroPeerInfo == PeerInfo("", NilSlice, 0)

\* A JSON object on the wire: "ips" is absent, null or an array
JsonDoc(id, form, arr, port) ==
    [node_id |-> id, ips |-> [form |-> form, arr |-> arr], tendermint_p2p_port |-> port]
NoDoc == JsonDoc("", "absent", <<>>, 0)

\* json.NewEncoder(stream).Encode(peer), lines 270-271, with the tags of lines
\* 49-51: a nil slice is written as null
JsonEncode(p) ==
    JsonDoc(p.NodeID, IF p.IP.isNil THEN "null" ELSE "array", p.IP.elems,
            p.TendermintP2PPort)

\* json.NewDecoder(stream).Decode(peer) into &PeerInfo{}, lines 309-311: an
\* absent or null "ips" leaves the field nil
JsonDecode_WrongTag(doc) ==
    PeerInfo(doc.node_id,
             IF doc.ips.form = "array" THEN Slice(doc.ips.arr) ELSE NilSlice,
             0)

JsonDecode(doc) ==
    PeerInfo(doc.node_id,
             IF doc.ips.form = "array" THEN Slice(doc.ips.arr) ELSE NilSlice,
             doc.tendermint_p2p_port)

NoProvider == [ID |-> "", Addrs |-> <<>>]
NoWire == [kind |-> "none", doc |-> NoDoc]

\* Part II at rest: no Peers task exists
NoPeersTask ==
    /\ announced = ZeroPeerInfo
    /\ pc = "none"
    /\ ctxDone = FALSE /\ timedOut = FALSE /\ reading = FALSE
    /\ query = "none" /\ sent = {} /\ peers = <<>>
    /\ cur = NoProvider /\ wire = NoWire /\ peer = ZeroPeerInfo
    /\ streams = {} /\ ch = "none" /\ out = <<>> /\ hist = <<>>

\* ------------------------------------------ artifacts and the content store
\* the three artifacts, in the order Publish stages them and Join fetches them
Artifacts == <<"manifest", "genesis", "image">>
FileNames == {"chainkit.yml", "genesis.json", "image.tgz"}
Absent == "-"          \* no such file / no such child / nil

\* the names with genesis and image exchanged
PublishNames_Swapped ==
    [manifest |-> "chainkit.yml", genesis |-> "image.tgz", image |-> "genesis.json"]

\* Publish, lines 192-198: the name each artifact is linked under in the sandbox
PublishNames ==
    [manifest |-> "chainkit.yml", genesis |-> "genesis.json", image |-> "image.tgz"]

\* Join, lines 217, 230 and 243: the child each artifact is read from
JoinNames ==
    [manifest |-> "chainkit.yml", genesis |-> "genesis.json", image |-> "image.tgz"]

\* the artifact a child name stands for
ArtifactOf(name) == CHOOSE a \in DOMAIN JoinNames : JoinNames[a] = name

\* a directory of the content store: the content of each child, or Absent
EmptyDir == [n \in FileNames |-> Absent]

\* p.Cid().String(), line 212: the identifier is the address of the content, so
\* equal directories have equal identifiers; a string that decodes to no CID
\* addresses nothing
CidOf(dir) == [ok |-> TRUE, dir |-> dir]
BadID == [ok |-> FALSE, dir |-> EmptyDir]

\* errors, by kind and by the artifacts their message names
NoErr == [kind |-> "none", names |-> {}]
Err(kind, names) == [kind |-> kind, names |-> names]

\* type NetworkInfo, lines 55-59; NoInfo is the nil *NetworkInfo
NetworkInfo(m, g, i) == [present |-> TRUE, Manifest |-> m, Genesis |-> g, Image |-> i]
NoInfo == [present |-> FALSE, Manifest |-> Absent, Genesis |-> Absent, Image |-> Absent]

\* iface.Path: the nil interface value, or a path to a child of a directory
NilPath == [isNil |-> TRUE, dir |-> EmptyDir, name |-> ""]
ChildPath(dir, name) == [isNil |-> FALSE, dir |-> dir, name |-> name]

NoFiles == [manifest |-> Absent, genesis |-> Absent, image |-> Absent]

\* no Publish call runs
NoPublish ==
    [pc |-> "idle", src |-> NoFiles, k |-> 0, sandbox |-> EmptyDir,
     id |-> BadID, err |-> FALSE]

\* no Join call runs
NoJoin ==
    [step |-> "idle", a |-> "manifest", id |-> BadID, path |-> NilPath,
     file |-> Absent, manifestData |-> Absent, genesisData |-> Absent,
     info |-> NoInfo, err |-> NoErr, at |-> "none"]

\* Part III at rest
NoContentCall ==
    /\ published = {} /\ pub = NoPublish /\ join = NoJoin /\ ops = 0

\* ------------------------------------------------- contexts and the clock
\* a context.Context: cancelled or not, with a deadline or without
Background == [cancelled |-> FALSE, hasDeadline |-> FALSE, deadline |-> 0]
WithDeadline(d) == [cancelled |-> FALSE, hasDeadline |-> TRUE, deadline |-> d]

NoCctx == [made |-> FALSE, at |-> 0, deadline |-> 0]
NotProvided == [returned |-> FALSE, at |-> 0, cancelled |-> FALSE]

\* Part IV at rest
NoAnnounceDetail ==
    /\ now = 0 /\ ctx = Background /\ cctx = NoCctx /\ provided = NotProvided
    /\ annPeer = ZeroPeerInfo /\ inbound = <<>>

Init ==
    /\ \E rt \in {f \in [Servers -> Roots] : f[1] = 1} : New(rt)
    /\ repoLock = [r \in Roots |-> 0]
    /\ initialized = [r \in Roots |-> FALSE]
    /\ swarm = [r \in Roots |-> 0]
    /\ calls = 0
    /\ NoPeersTask
    /\ store = {} /\ NoContentCall
    /\ NoAnnounceDetail

\* ----------------------------------------------------------- Server.Start
\* Start returns err (or nil) to its caller
StartReturn(s, how) ==
    /\ startPc' = [startPc EXCEPT ![s] = "idle"]
    /\ lastStart' = [lastStart EXCEPT ![s] = how]

StartGoto(s, step) ==
    /\ startPc' = [startPc EXCEPT ![s] = step]
    /\ lastStart' = [lastStart EXCEPT ![s] = "running"]

\* fsrepo.LockedByOtherProcess(s.root): true exactly when the lock is held
LockedByOtherProcess(s) == repoLock[root[s]] # 0

\* Start, lines 102-110: the lock check.  The probe itself can fail (err # nil)
\* only when it finds no holder.
StartLockCheck_NoLockedTest(s) ==
    /\ ~panicked[s] /\ startPc[s] = "idle" /\ ~online[s] /\ SumOver(starts, Servers) < MaxStarts
    /\ starts' = [starts EXCEPT ![s] = @ + 1]
    /\ \/ /\ ~LockedByOtherProcess(s)
          /\ StartReturn(s, "lockcheck")
       \/ StartGoto(s, "plugins")
    /\ UNCHANGED <<root, node, connectedCh, handler, repoLock, initialized, swarm,
                   plugins, online, boot, bootDone, closes, panicked,
                   annPc, annLog, annRes, prsPc, findIssued, calls>>

StartLockCheck(s) ==
    /\ ~panicked[s] /\ startPc[s] = "idle" /\ ~online[s] /\ SumOver(starts, Servers) < MaxStarts
    /\ starts' = [starts EXCEPT ![s] = @ + 1]
    /\ \/ /\ LockedByOtherProcess(s)
          /\ StartReturn(s, "AlreadyRunning")
       \/ /\ ~LockedByOtherProcess(s)
          /\ StartReturn(s, "lockcheck")
       \/ /\ ~LockedByOtherProcess(s)
          /\ StartGoto(s, "plugins")
    /\ UNCHANGED <<root, node, connectedCh, handler, repoLock, initialized, swarm,
                   plugins, online, boot, bootDone, closes, panicked,
                   annPc, annLog, annRes, prsPc, findIssued, calls>>

\* Start, lines 112-115: loader.LoadPlugins
StartLoadPlugins(s) ==
    /\ ~panicked[s] /\ startPc[s] = "plugins"
    /\ \/ /\ plugins' = [plugins EXCEPT ![s] = TRUE]
          /\ StartGoto(s, "init")
       \/ /\ StartReturn(s, "plugins")
          /\ UNCHANGED plugins
    /\ UNCHANGED <<root, node, connectedCh, handler, repoLock, initialized, swarm,
                   online, starts, boot, bootDone, closes, panicked,
                   annPc, annLog, annRes, prsPc, findIssued, calls>>

\* Start, lines 117-121, and ipfsInit, lines 155-164
StartInit(s) ==
    /\ ~panicked[s] /\ startPc[s] = "init"
    /\ \/ /\ initialized[root[s]]
          /\ StartGoto(s, "open")
          /\ UNCHANGED initialized
       \/ /\ ~initialized[root[s]]
          /\ initialized' = [initialized EXCEPT ![root[s]] = TRUE]
          /\ StartGoto(s, "open")
       \/ /\ ~initialized[root[s]]
          /\ StartReturn(s, "init")
          /\ UNCHANGED initialized
    /\ UNCHANGED <<root, node, connectedCh, handler, repoLock, swarm, plugins,
                   online, starts, boot, bootDone, closes, panicked,
                   annPc, annLog, annRes, prsPc, findIssued, calls>>

\* Start, lines 123-126: fsrepo.Open takes the repository lock or fails
StartOpen_NoLock(s) ==
    /\ ~panicked[s] /\ startPc[s] = "open"
    /\ \/ /\ repoLock' = [repoLock EXCEPT ![root[s]] = s]
          /\ StartGoto(s, "config")
       \/ /\ StartReturn(s, "open")
          /\ UNCHANGED repoLock
    /\ UNCHANGED <<root, node, connectedCh, handler, initialized, swarm, plugins,
                   online, starts, boot, bootDone, closes, panicked,
                   annPc, annLog, annRes, prsPc, findIssued, calls>>

StartOpen(s) ==
    /\ ~panicked[s] /\ startPc[s] = "open"
    /\ \/ /\ repoLock[root[s]] = 0
          /\ repoLock' = [repoLock EXCEPT ![root[s]] = s]
          /\ StartGoto(s, "config")
       \/ /\ StartReturn(s, "open")
          /\ UNCHANGED repoLock
    /\ UNCHANGED <<root, node, connectedCh, handler, initialized, swarm, plugins,
                   online, starts, boot, bootDone, closes, panicked,
                   annPc, annLog, annRes, prsPc, findIssued, calls>>

\* Start, lines 128-134: repo.SetConfigKey("Addresses.Swarm", ...); on error Start
\* returns with the repository still open
StartSetConfig(s) ==
    /\ ~panicked[s] /\ startPc[s] = "config"
    /\ \/ /\ swarm' = [swarm EXCEPT ![root[s]] = s]
          /\ StartGoto(s, "node")
       \/ /\ StartReturn(s, "config")
          /\ UNCHANGED swarm
    /\ UNCHANGED <<root, node, connectedCh, handler, repoLock, initialized, plugins,
                   online, starts, boot, bootDone, closes, panicked,
                   annPc, annLog, annRes, prsPc, findIssued, calls>>

\* Start, lines 136-142: s.node, err = core.NewNode(...).  A failing NewNode
\* closes the node it was building, and with it the repository it was given;
\* the assignment then stores nil in s.node.
StartNewNode(s) ==
    /\ ~panicked[s] /\ startPc[s] = "node"
    /\ \/ /\ node' = [node EXCEPT ![s] = "live"]
          /\ handler' = [handler EXCEPT ![s] = FALSE]
          /\ StartGoto(s, "dht")
          /\ UNCHANGED repoLock
       \/ /\ node' = [node EXCEPT ![s] = "nil"]
          /\ handler' = [handler EXCEPT ![s] = FALSE]
          /\ repoLock' = Release(s)
          /\ StartReturn(s, "node")
    /\ UNCHANGED <<root, connectedCh, initialized, swarm, plugins,
                   online, starts, boot, bootDone, closes, panicked,
                   annPc, annLog, annRes, prsPc, findIssued, calls>>

\* Start, lines 144-152: coreapi.NewCoreAPI, dht.New, go s.dhtConnect(ctx), return nil;
\* on a dht.New error Start returns with s.node live
StartDhtNew(s) ==
    /\ ~panicked[s] /\ startPc[s] = "dht"
    /\ \/ /\ boot' = [boot EXCEPT ![s] = Append(@, 0)]
          /\ online' = [online EXCEPT ![s] = TRUE]
          /\ StartReturn(s, "ok")
       \/ /\ StartReturn(s, "dht")
          /\ UNCHANGED <<boot, online>>
    /\ UNCHANGED <<root, node, connectedCh, handler, repoLock, initialized, swarm,
                   plugins, starts, bootDone, closes, panicked,
                   annPc, annLog, annRes, prsPc, findIssued, calls>>

\* ------------------------------------------------------------ Server.Stop
\* Stop, lines 96-98: s.node.Close() closes the node and its repository.
\* Callers stop an instance they started ("Stop must be called after start").
Stop(s) ==
    /\ ~panicked[s] /\ startPc[s] = "idle" /\ online[s]
    /\ node' = [node EXCEPT ![s] = "closed"]
    /\ repoLock' = Release(s)
    /\ online' = [online EXCEPT ![s] = FALSE]
    /\ UNCHANGED <<root, connectedCh, handler, initialized, swarm, plugins,
                   startPc, lastStart, starts, boot, bootDone, closes, panicked,
                   annPc, annLog, annRes, prsPc, findIssued, calls>>

\* ------------------------------------------------------ Server.dhtConnect
RemoveAt(q, i) == SubSeq(q, 1, i - 1) \o SubSeq(q, i + 1, Len(q))

\* close(s.connectedCh), the deferred call of dhtConnect (line 167)
CloseConnectedCh(s) ==
    /\ connectedCh' = [connectedCh EXCEPT ![s] = "closed"]
    /\ closes' = [closes EXCEPT ![s] = @ + 1]

\* dhtConnect, lines 168-177: one turn of the loop over bootstrapPeers.  Connect
\* succeeds or fails (on a closed host it fails); a failure is logged and the
\* loop goes on, so both outcomes leave the task in the same place.  s.node is
\* read on every turn: a nil s.node is a nil dereference, the deferred close runs
\* and the process dies.
BootTurn(s, i) ==
    /\ ~panicked[s] /\ i \in 1..Len(boot[s])
    /\ boot[s][i] < NumBootstrapPeers
    /\ \/ /\ node[s] = "live"
          /\ boot' = [boot EXCEPT ![s][i] = @ + 1]
          /\ UNCHANGED <<connectedCh, closes, panicked, repoLock, online, startPc,
                         annPc, prsPc>>
       \/ /\ node[s] # "nil"
          /\ boot' = [boot EXCEPT ![s][i] = @ + 1]
          /\ UNCHANGED <<connectedCh, closes, panicked, repoLock, online, startPc,
                         annPc, prsPc>>
       \/ /\ node[s] = "nil"
          /\ CloseConnectedCh(s)
          /\ Panic(s)
    /\ UNCHANGED <<root, node, handler, initialized, swarm, plugins, lastStart,
                   starts, bootDone, annLog, annRes, findIssued, calls>>

\* some running dhtConnect task of the instance takes a turn of its loop
BootConnect(s) == \E i \in 1..Len(boot[s]) : BootTurn(s, i)

\* dhtConnect, lines 167 and 178: the loop is over, the deferred close runs.
\* Closing a closed channel panics.
BootEnd(s, i) ==
    /\ ~panicked[s] /\ i \in 1..Len(boot[s])
    /\ boot[s][i] = NumBootstrapPeers
    /\ CloseConnectedCh(s)
    /\ \/ /\ connectedCh[s] = "open"
          /\ bootDone' = [bootDone EXCEPT ![s] = TRUE]
          /\ boot' = [boot EXCEPT ![s] = RemoveAt(@, i)]
          /\ UNCHANGED <<panicked, repoLock, online, startPc, annPc, prsPc>>
       \/ /\ connectedCh[s] = "closed"
          /\ Panic(s)
          /\ UNCHANGED bootDone
    /\ UNCHANGED <<root, node, handler, initialized, swarm, plugins, lastStart,
                   starts, annLog, annRes, findIssued, calls>>

\* some running dhtConnect task of the instance returns
BootClose(s) == \E i \in 1..Len(boot[s]) : BootEnd(s, i)

\* -------------------------------------------------------- Server.Announce
\* a caller of an instance it started enters Announce (line 259)
AnnounceCall(s) ==
    /\ ~panicked[s] /\ online[s] /\ annPc[s] = "idle" /\ calls < MaxCalls
    /\ calls' = calls + 1
    /\ annPc' = [annPc EXCEPT ![s] = "wait"]
    /\ annLog' = [annLog EXCEPT ![s] = <<>>]
    /\ annRes' = [annRes EXCEPT ![s] = "none"]
    /\ UNCHANGED <<root, node, connectedCh, handler, repoLock, initialized, swarm,
                   plugins, startPc, lastStart, online, starts, boot, bootDone,
                   closes, panicked, prsPc, findIssued>>

\* Announce, line 261: <-s.connectedCh
AnnounceWait_NoWait(s) ==
    /\ ~panicked[s] /\ annPc[s] = "wait"
    /\ annPc' = [annPc EXCEPT ![s] = "decode"]
    /\ UNCHANGED <<root, node, connectedCh, handler, repoLock, initialized, swarm,
                   plugins, startPc, lastStart, online, starts, boot, bootDone,
                   closes, panicked, annLog, annRes, prsPc, findIssued, calls>>

AnnounceWait(s) ==
    /\ ~panicked[s] /\ annPc[s] = "wait"
    /\ connectedCh[s] = "closed"
    /\ annPc' = [annPc EXCEPT ![s] = "decode"]
    /\ UNCHANGED <<root, node, connectedCh, handler, repoLock, initialized, swarm,
                   plugins, startPc, lastStart, online, starts, boot, bootDone,
                   closes, panicked, annLog, annRes, prsPc, findIssued, calls>>

\* Announce, lines 263-266: cid.Decode(chainID), for a well-formed or a malformed chainID
AnnounceDecode(s) ==
    /\ ~panicked[s] /\ annPc[s] = "decode"
    /\ \/ /\ annPc' = [annPc EXCEPT ![s] = "handler"]
          /\ UNCHANGED annRes
       \/ /\ annPc' = [annPc EXCEPT ![s] = "idle"]
          /\ annRes' = [annRes EXCEPT ![s] = "badcid"]
    /\ UNCHANGED <<root, node, connectedCh, handler, repoLock, initialized, swarm,
                   plugins, startPc, lastStart, online, starts, boot, bootDone,
                   closes, panicked, annLog, prsPc, findIssued, calls>>

\* s.dht.Provide(cctx, id, true), lines 277-282: nil, or an error (the DHT's, or
\* the deadline's); a closed node cannot provide
Provide(s) ==
    /\ annLog' = [annLog EXCEPT ![s] = Append(@, "provide")]
    /\ \/ /\ node[s] = "live"
          /\ annRes' = [annRes EXCEPT ![s] = "ok"]
       \/ annRes' = [annRes EXCEPT ![s] = "provideErr"]

\* s.node.PeerHost.SetStreamHandler("/chainkit/0.1.0", ...), lines 268-275
SetStreamHandler(s) ==
    /\ annLog' = [annLog EXCEPT ![s] = Append(@, "handler")]
    /\ handler' = [handler EXCEPT ![s] = TRUE]

AnnounceFirst_ProvideFirst(s) ==
    /\ ~panicked[s] /\ annPc[s] = "handler"
    /\ node[s] # "nil"
    /\ Provide(s)
    /\ annPc' = [annPc EXCEPT ![s] = "provide"]
    /\ UNCHANGED <<root, node, connectedCh, handler, repoLock, initialized, swarm,
                   plugins, startPc, lastStart, online, starts, boot, bootDone,
                   closes, panicked, prsPc, findIssued, calls>>

\* Announce, lines 268-275, the first of its two steps on the node.  s.node nil
\* (a restart that failed in NewNode) is a nil dereference.
AnnounceFirst(s) ==
    /\ ~panicked[s] /\ annPc[s] = "handler"
    /\ \/ /\ node[s] # "nil"
          /\ SetStreamHandler(s)
          /\ annPc' = [annPc EXCEPT ![s] = "provide"]
          /\ UNCHANGED <<panicked, repoLock, online, startPc, boot, prsPc>>
       \/ /\ node[s] = "nil"
          /\ Panic(s)
          /\ UNCHANGED <<annLog, handler>>
    /\ UNCHANGED <<root, node, connectedCh, initialized, swarm, plugins, lastStart,
                   starts, bootDone, closes, annRes, findIssued, calls>>

\* Announce, lines 277-283, the second step, and the return
AnnounceSecond(s) ==
    /\ ~panicked[s] /\ annPc[s] = "provide"
    /\ Provide(s)
    /\ annPc' = [annPc EXCEPT ![s] = "idle"]
    /\ UNCHANGED <<root, node, connectedCh, handler, repoLock, initialized, swarm,
                   plugins, startPc, lastStart, online, starts, boot, bootDone,
                   closes, panicked, prsPc, findIssued, calls>>

\* ----------------------------------------------------------- Server.Peers
\* a caller of an instance it started enters Peers (line 286)
PeersCall(s) ==
    /\ ~panicked[s] /\ online[s] /\ prsPc[s] = "idle" /\ calls < MaxCalls
    /\ calls' = calls + 1
    /\ prsPc' = [prsPc EXCEPT ![s] = "wait"]
    /\ UNCHANGED <<root, node, connectedCh, handler, repoLock, initialized, swarm,
                   plugins, startPc, lastStart, online, starts, boot, bootDone,
                   closes, panicked, annPc, annLog, annRes, findIssued>>

\* Peers, line 288: <-s.connectedCh
PeersWait(s) ==
    /\ ~panicked[s] /\ prsPc[s] = "wait"
    /\ connectedCh[s] = "closed"
    /\ prsPc' = [prsPc EXCEPT ![s] = "decode"]
    /\ UNCHANGED <<root, node, connectedCh, handler, repoLock, initialized, swarm,
                   plugins, startPc, lastStart, online, starts, boot, bootDone,
                   closes, panicked, annPc, annLog, annRes, findIssued, calls>>

\* Peers, lines 290-296 and 333: cid.Decode, then the channel is made, the task
\* is launched and the channel returned
PeersDecode(s) ==
    /\ ~panicked[s] /\ prsPc[s] = "decode"
    /\ \/ prsPc' = [prsPc EXCEPT ![s] = "go"]
       \/ prsPc' = [prsPc EXCEPT ![s] = "idle"]
    /\ UNCHANGED <<root, node, connectedCh, handler, repoLock, initialized, swarm,
                   plugins, startPc, lastStart, online, starts, boot, bootDone,
                   closes, panicked, annPc, annLog, annRes, findIssued, calls>>

\* Peers, lines 297-302: the task issues s.dht.FindProvidersAsync(tctx, id, 10);
\* what it does next is Part II
PeersFind(s) ==
    /\ ~panicked[s] /\ prsPc[s] = "go"
    /\ findIssued' = [findIssued EXCEPT ![s] = 1]
    /\ prsPc' = [prsPc EXCEPT ![s] = "idle"]
    /\ UNCHANGED <<root, node, connectedCh, handler, repoLock, initialized, swarm,
                   plugins, startPc, lastStart, online, starts, boot, bootDone,
                   closes, panicked, annPc, annLog, annRes, calls>>

\* ------------------------------------------------------------------ Part I
\* what Part I leaves alone
beyondLife == <<peersVars, contentVars, announceVars>>

Next ==
    \E s \in Servers :
        \/ StartLockCheck(s) /\ UNCHANGED beyondLife
        \/ StartLoadPlugins(s) /\ UNCHANGED beyondLife
        \/ StartInit(s) /\ UNCHANGED beyondLife
        \/ StartOpen(s) /\ UNCHANGED beyondLife
        \/ StartSetConfig(s) /\ UNCHANGED beyondLife
        \/ StartNewNode(s) /\ UNCHANGED beyondLife
        \/ StartDhtNew(s) /\ UNCHANGED beyondLife
        \/ Stop(s) /\ UNCHANGED beyondLife
        \/ BootConnect(s) /\ UNCHANGED beyondLife
        \/ BootClose(s) /\ UNCHANGED beyondLife
        \/ AnnounceCall(s) /\ UNCHANGED beyondLife
        \/ AnnounceWait(s) /\ UNCHANGED beyondLife
        \/ AnnounceDecode(s) /\ UNCHANGED beyondLife
        \/ AnnounceFirst(s) /\ UNCHANGED beyondLife
        \/ AnnounceSecond(s) /\ UNCHANGED beyondLife
        \/ PeersCall(s) /\ UNCHANGED beyondLife
        \/ PeersWait(s) /\ UNCHANGED beyondLife
        \/ PeersDecode(s) /\ UNCHANGED beyondLife
        \/ PeersFind(s) /\ UNCHANGED beyondLife

Spec == Init /\ [][Next]_vars

\* ================================================================ Part II
\* The background task of one Peers call on instance 1 (lines 296-331), the
\* provider query it reads, the candidates it talks to and the caller that
\* receives from the returned channel.
MaxProviders == 3      \* providers the DHT query returns in one search
FindLimit == 10        \* the count given to FindProvidersAsync

Self == "self"         \* s.node.PeerHost.ID()
Announcer == "A"       \* a remote node that completed Announce(id, announced)
Strangers == {"B", "C"} \* remote nodes that answer as they please
PeerIDs == {Self, Announcer} \cup Strangers

\* multiaddrs of a provider record
A4 == [proto |-> "ip4", value |-> "10.0.0.1"]
A6 == [proto |-> "ip6", value |-> "::1"]
B4 == [proto |-> "ip4", value |-> "10.0.0.2"]
AddrLists == {<<>>, <<A6>>, <<A4, A6, B4>>}

\* the address lists a provider record of each peer may carry
AddrsOf(id) ==
    CASE id = Self -> {<<A4, A6, B4>>}
      [] id = Announcer -> {<<>>, <<A4, A6, B4>>}
      [] id = "B" -> {<<>>, <<A6>>}
      [] OTHER -> {<<A6>>, <<A4, A6, B4>>}

\* the records an announcer may have passed to Announce
Announcements ==
    {PeerInfo(Announcer, NilSlice, 26656),
     PeerInfo(Announcer, Slice(<<"192.168.0.5">>), 26656)}

\* what a candidate may put on the stream: the announcer's handler (lines
\* 268-275) writes its record; a stranger writes any document; either may send
\* bytes that are no JSON document, or nothing yet
Docs(id) ==
    IF id = Announcer THEN {JsonEncode(announced)}
    ELSE {JsonDoc(Self, "absent", <<>>, 26656),
          JsonDoc(id, "array", <<"172.16.0.7">>, 26656)}

Replies(id) ==
    {[kind |-> "json", doc |-> d] : d \in Docs(id)} \cup {[kind |-> "garbage", doc |-> NoDoc]}

Wires(id) == Replies(id) \cup {[kind |-> "silent", doc |-> NoDoc]}

\* tctx = context.WithTimeout(ctx, 10*time.Second), line 297
TctxDone == ctxDone \/ timedOut

\* addr.ValueForProtocol(multiaddr.P_IP4), line 320
ValueForProtocol(addr, proto) ==
    IF addr.proto = proto THEN [v |-> addr.value, err |-> FALSE]
    ELSE [v |-> "", err |-> TRUE]

\* lines 319-326: the IPv4 values of p.Addrs, in order, appended to peer.IP
RECURSIVE AppendIP4(_, _)
AppendIP4(ips, addrs) ==
    IF addrs = <<>> THEN ips
    ELSE LET r == ValueForProtocol(Head(addrs), "ip4")
         IN  IF r.err \/ r.v = "" THEN AppendIP4(ips, Tail(addrs))
             ELSE AppendIP4(Append(ips, r.v), Tail(addrs))

\* lines 319-326 without lines 316-318: a nil IP with nothing appended stays nil
Complete_NilStays(p, addrs) ==
    [p EXCEPT !.IP = IF p.IP.isNil /\ AppendIP4(<<>>, addrs) = <<>> THEN NilSlice
                     ELSE Slice(AppendIP4(p.IP.elems, addrs))]

\* lines 316-326: a nil IP becomes the empty list, then the addresses are appended
Complete(p, addrs) ==
    [p EXCEPT !.IP = Slice(AppendIP4(IF p.IP.isNil THEN <<>> ELSE p.IP.elems, addrs))]

\* the last provider taken from peers gets its fate recorded
Noted(field, v) == [hist EXCEPT ![Len(hist)] = [@ EXCEPT ![field] = v]]

\* The state of instance 1 when the task of its Peers call is launched: started,
\* bootstrap over, Peers past its wait and its cid.Decode
TaskLaunched ==
    /\ root = [s \in Servers |-> 1]
    /\ node = [s \in Servers |-> IF s = 1 THEN "live" ELSE "nil"]
    /\ connectedCh = [s \in Servers |-> IF s = 1 THEN "closed" ELSE "open"]
    /\ handler = [s \in Servers |-> FALSE]
    /\ repoLock = [r \in Roots |-> IF r = 1 THEN 1 ELSE 0]
    /\ initialized = [r \in Roots |-> r = 1]
    /\ swarm = [r \in Roots |-> IF r = 1 THEN 1 ELSE 0]
    /\ plugins = [s \in Servers |-> s = 1]
    /\ startPc = [s \in Servers |-> "idle"]
    /\ lastStart = [s \in Servers |-> IF s = 1 THEN "ok" ELSE "none"]
    /\ online = [s \in Servers |-> s = 1]
    /\ starts = [s \in Servers |-> IF s = 1 THEN 1 ELSE 0]
    /\ boot = [s \in Servers |-> <<>>]
    /\ bootDone = [s \in Servers |-> s = 1]
    /\ closes = [s \in Servers |-> IF s = 1 THEN 1 ELSE 0]
    /\ panicked = [s \in Servers |-> FALSE]
    /\ annPc = [s \in Servers |-> "idle"]
    /\ annLog = [s \in Servers |-> <<>>]
    /\ annRes = [s \in Servers |-> "none"]
    /\ prsPc = [s \in Servers |-> IF s = 1 THEN "go" ELSE "idle"]
    /\ findIssued = [s \in Servers |-> 0]
    /\ calls = 1

InitPeers ==
    /\ TaskLaunched
    /\ announced \in Announcements
    /\ pc = "start"
    /\ ctxDone = FALSE /\ timedOut = FALSE /\ reading = TRUE
    /\ query = "none" /\ sent = {} /\ peers = <<>>
    /\ cur = NoProvider /\ wire = NoWire /\ peer = ZeroPeerInfo
    /\ streams = {} /\ ch = "open" /\ out = <<>> /\ hist = <<>>
    /\ store = {} /\ NoContentCall
    /\ NoAnnounceDetail

\* lines 297-302: tctx is made and FindProvidersAsync issued
TaskFind ==
    /\ pc = "start"
    /\ PeersFind(1)
    /\ pc' = "range"
    /\ query' = "running"
    /\ UNCHANGED <<announced, ctxDone, timedOut, reading, sent, peers, cur, wire,
                   peer, streams, ch, out, hist>>

\* FindProvidersAsync's own routine finds one more provider and sends it; it
\* sends no peer twice, at most count peers, and none once tctx is done
QueryDeliver ==
    /\ query = "running" /\ ~TctxDone
    /\ Cardinality(sent) < MaxProviders /\ Cardinality(sent) < FindLimit
    /\ \E id \in PeerIDs \ sent : \E addrs \in AddrsOf(id) :
           /\ peers' = Append(peers, [ID |-> id, Addrs |-> addrs])
           /\ sent' = sent \cup {id}
    /\ UNCHANGED <<lifeVars, announced, pc, ctxDone, timedOut, reading, query, cur,
                   wire, peer, streams, ch, out, hist>>

\* FindProvidersAsync's routine ends (search over, count reached, or tctx done)
\* and closes its channel
QueryClose ==
    /\ query = "running"
    /\ query' = "closed"
    /\ UNCHANGED <<lifeVars, announced, pc, ctxDone, timedOut, reading, sent, peers,
                   cur, wire, peer, streams, ch, out, hist>>

\* the loop without the deferred close(ch) of line 300
TaskRange_CloseMissing ==
    /\ pc = "range"
    /\ \/ /\ peers # <<>>
          /\ LET p == Head(peers) IN
               /\ peers' = Tail(peers)
               /\ hist' = Append(hist, [ID |-> p.ID, Addrs |-> p.Addrs,
                                        opened |-> "no", reply |-> "none"])
               /\ IF p.ID # Self /\ Len(p.Addrs) > 0
                  THEN cur' = p /\ pc' = "open"
                  ELSE cur' = NoProvider /\ pc' = "range"
          /\ UNCHANGED ch
       \/ /\ peers = <<>> /\ query = "closed"
          /\ pc' = "done"
          /\ UNCHANGED <<ch, peers, hist, cur>>
    /\ UNCHANGED <<lifeVars, announced, ctxDone, timedOut, reading, query, sent,
                   wire, peer, streams, out>>

\* the loop with line 304 testing the identity only
TaskRange_NoAddrFilter ==
    /\ pc = "range"
    /\ \/ /\ peers # <<>>
          /\ LET p == Head(peers) IN
               /\ peers' = Tail(peers)
               /\ hist' = Append(hist, [ID |-> p.ID, Addrs |-> p.Addrs,
                                        opened |-> "no", reply |-> "none"])
               /\ IF p.ID # Self
                  THEN cur' = p /\ pc' = "open"
                  ELSE cur' = NoProvider /\ pc' = "range"
          /\ UNCHANGED ch
       \/ /\ peers = <<>> /\ query = "closed"
          /\ ch' = "closed"
          /\ pc' = "done"
          /\ UNCHANGED <<peers, hist, cur>>
    /\ UNCHANGED <<lifeVars, announced, ctxDone, timedOut, reading, query, sent,
                   wire, peer, streams, out>>

\* lines 303-304 and 299-300: the loop takes the next provider, or ends when the
\* channel is closed and drained; then the deferred close(ch) and cancel() run
TaskRange ==
    /\ pc = "range"
    /\ \/ /\ peers # <<>>
          /\ LET p == Head(peers) IN
               /\ peers' = Tail(peers)
               /\ hist' = Append(hist, [ID |-> p.ID, Addrs |-> p.Addrs,
                                        opened |-> "no", reply |-> "none"])
               /\ IF p.ID # Self /\ Len(p.Addrs) > 0
                  THEN cur' = p /\ pc' = "open"
                  ELSE cur' = NoProvider /\ pc' = "range"
          /\ UNCHANGED ch
       \/ /\ peers = <<>> /\ query = "closed"
          /\ ch' = "closed"
          /\ pc' = "done"
          /\ UNCHANGED <<peers, hist, cur>>
    /\ UNCHANGED <<lifeVars, announced, ctxDone, timedOut, reading, query, sent,
                   wire, peer, streams, out>>

\* lines 305-308: s.node.PeerHost.NewStream(ctx, p.ID, "/chainkit/0.1.0"); it
\* fails once ctx is done; on failure the loop continues
TaskOpen ==
    /\ pc = "open"
    /\ \/ /\ ~ctxDone
          /\ streams' = streams \cup {cur.ID}
          /\ \E w \in Wires(cur.ID) : wire' = w
          /\ hist' = Noted("opened", "yes")
          /\ pc' = "decode"
          /\ UNCHANGED cur
       \/ /\ hist' = Noted("opened", "failed")
          /\ cur' = NoProvider
          /\ pc' = "range"
          /\ UNCHANGED <<streams, wire>>
    /\ UNCHANGED <<lifeVars, announced, ctxDone, timedOut, reading, query, sent,
                   peers, peer, ch, out>>

\* a candidate that had sent nothing sends its reply
RemoteWrites ==
    /\ pc = "decode" /\ wire.kind = "silent"
    /\ \E w \in Replies(cur.ID) : wire' = w
    /\ UNCHANGED <<lifeVars, announced, pc, ctxDone, timedOut, reading, query, sent,
                   peers, cur, peer, streams, ch, out, hist>>

TaskDecode_ReturnOnError ==
    /\ pc = "decode"
    /\ \/ /\ wire.kind = "garbage"
          /\ hist' = Noted("reply", "garbage")
          /\ cur' = NoProvider
          /\ ch' = "closed"
          /\ pc' = "done"
          /\ UNCHANGED peer
       \/ /\ wire.kind = "json"
          /\ hist' = Noted("reply", "json")
          /\ peer' = Complete(JsonDecode(wire.doc), cur.Addrs)
          /\ pc' = "send"
          /\ UNCHANGED <<cur, ch>>
    /\ UNCHANGED <<lifeVars, announced, ctxDone, timedOut, reading, query, sent,
                   peers, wire, streams, out>>

\* lines 309-326: dec.Decode(peer) reads the stream (no context bounds the
\* read); on an error the loop continues, the stream left as it is; otherwise
\* the record is completed
TaskDecode ==
    /\ pc = "decode"
    /\ \/ /\ wire.kind = "garbage"
          /\ hist' = Noted("reply", "garbage")
          /\ cur' = NoProvider
          /\ pc' = "range"
          /\ UNCHANGED peer
       \/ /\ wire.kind = "json"
          /\ hist' = Noted("reply", "json")
          /\ peer' = Complete(JsonDecode(wire.doc), cur.Addrs)
          /\ pc' = "send"
          /\ UNCHANGED cur
    /\ UNCHANGED <<lifeVars, announced, ctxDone, timedOut, reading, query, sent,
                   peers, wire, streams, ch, out>>

\* line 328: ch <- peer, on the unbuffered channel: it completes when the caller
\* receives
TaskSend ==
    /\ pc = "send"
    /\ reading
    /\ out' = Append(out, [from |-> cur.ID, addrs |-> cur.Addrs, doc |-> wire.doc,
                           rec |-> peer])
    /\ cur' = NoProvider /\ wire' = NoWire /\ peer' = ZeroPeerInfo
    /\ pc' = "range"
    /\ UNCHANGED <<lifeVars, announced, ctxDone, timedOut, reading, query, sent,
                   peers, streams, ch, hist>>

\* the caller cancels the context it passed to Peers
Cancel ==
    /\ ~ctxDone
    /\ ctxDone' = TRUE
    /\ UNCHANGED <<lifeVars, announced, pc, timedOut, reading, query, sent, peers,
                   cur, wire, peer, streams, ch, out, hist>>

\* the caller stops receiving from the channel
Abandon ==
    /\ reading /\ pc # "done"
    /\ reading' = FALSE
    /\ UNCHANGED <<lifeVars, announced, pc, ctxDone, timedOut, query, sent, peers,
                   cur, wire, peer, streams, ch, out, hist>>

\* 10 seconds pass after line 297
Timeout ==
    /\ pc \notin {"start", "done"} /\ ~timedOut
    /\ timedOut' = TRUE
    /\ UNCHANGED <<lifeVars, announced, pc, ctxDone, reading, query, sent, peers,
                   cur, wire, peer, streams, ch, out, hist>>

\* what the task and the DHT routine can do by themselves
TaskStep == TaskFind \/ TaskRange \/ TaskOpen \/ TaskDecode \/ TaskSend \/ QueryClose

\* what Part II leaves alone (lifeVars are named in its actions)
beyondPeers == <<contentVars, announceVars>>

NextPeers ==
    \/ TaskFind /\ UNCHANGED beyondPeers
    \/ QueryDeliver /\ UNCHANGED beyondPeers
    \/ QueryClose /\ UNCHANGED beyondPeers
    \/ TaskRange /\ UNCHANGED beyondPeers
    \/ TaskOpen /\ UNCHANGED beyondPeers
    \/ RemoteWrites /\ UNCHANGED beyondPeers
    \/ TaskDecode /\ UNCHANGED beyondPeers
    \/ TaskSend /\ UNCHANGED beyondPeers
    \/ Cancel /\ UNCHANGED beyondPeers
    \/ Abandon /\ UNCHANGED beyondPeers
    \/ Timeout /\ UNCHANGED beyondPeers

SpecPeers == InitPeers /\ [][NextPeers]_vars

\* =============================================================== Part III
\* Publish and Join calls on the started instance 1, and the content store of
\* the overlay they add to and resolve from.
MaxOps == 2            \* Publish/Join calls

\* the files a caller may name in a Publish call: a content, or no such file
SrcFiles ==
    [manifest : {"m", "x", Absent}, genesis : {"g", "x", Absent},
     image : {"i", "x", Absent}]

\* content other nodes have added to the overlay, some of it incomplete
ThirdParty ==
    {[n \in FileNames |-> IF n = "genesis.json" THEN Absent ELSE "t"],
     [n \in FileNames |-> IF n = "image.tgz" THEN Absent ELSE "t"]}

InitContent ==
    /\ TaskLaunched
    /\ NoPeersTask
    /\ store = ThirdParty
    /\ NoContentCall
    /\ NoAnnounceDetail

\* ---------------------------------------------------------- Server.Publish
\* Publish returns: an identifier and nil, or "" and an error
PublishReturn(id, err) ==
    pub' = [pub EXCEPT !.pc = "idle", !.id = id, !.err = err]

\* a caller enters Publish (line 181)
PublishCall ==
    /\ pub.pc = "idle" /\ ops < MaxOps
    /\ \E src \in SrcFiles : pub' = [NoPublish EXCEPT !.pc = "tempdir", !.src = src]
    /\ ops' = ops + 1
    /\ UNCHANGED <<store, published, join>>

\* lines 182-190: ioutil.TempDir and os.Stat make the empty sandbox, or fail
PublishTempDir ==
    /\ pub.pc = "tempdir"
    /\ \/ pub' = [pub EXCEPT !.pc = "link", !.k = 1, !.sandbox = EmptyDir]
       \/ PublishReturn(BadID, TRUE)
    /\ UNCHANGED <<store, published, join, ops>>

\* lines 192-200: os.Link of the next artifact into the sandbox under its name;
\* it fails when the path names no file, and may fail otherwise
PublishLink ==
    /\ pub.pc = "link"
    /\ LET a == Artifacts[pub.k] IN
         \/ /\ pub.src[a] # Absent
            /\ pub' = [pub EXCEPT !.sandbox[PublishNames[a]] = pub.src[a],
                                  !.k = IF pub.k < Len(Artifacts) THEN pub.k + 1 ELSE 0,
                                  !.pc = IF pub.k < Len(Artifacts) THEN "link" ELSE "add"]
         \/ PublishReturn(BadID, TRUE)
    /\ UNCHANGED <<store, published, join, ops>>

\* lines 202-212: files.NewSerialFile over the sandbox, s.api.Unixfs().Add, and
\* the identifier of what was added
PublishAdd ==
    /\ pub.pc = "add"
    /\ \/ /\ store' = store \cup {pub.sandbox}
          /\ PublishReturn(CidOf(pub.sandbox), FALSE)
          /\ published' = published \cup {[id |-> CidOf(pub.sandbox), src |-> pub.src]}
       \/ /\ PublishReturn(BadID, TRUE)
          /\ UNCHANGED <<store, published>>
    /\ UNCHANGED <<join, ops>>

\* ------------------------------------------------------------- Server.Join
\* iface.ParsePath(path.Join("/ipfs", chainID, name)): it fails exactly when
\* chainID holds no CID, whatever the name
ParsePath(id, name) ==
    IF id.ok THEN [path |-> ChildPath(id.dir, name), err |-> Err("none", {})]
    ELSE [path |-> NilPath, err |-> Err("parse", {})]

\* s.api.Unixfs().Get(ctx, path): what it may return.  The overlay may fail to
\* deliver (ctx done, no provider reachable); a directory it resolves has the
\* child or not, and the resolver's error names the missing link; a nil path
\* is a nil dereference
Get(path) ==
    IF path.isNil THEN {[file |-> Absent, err |-> Err("panic", {})]}
    ELSE {[file |-> Absent, err |-> Err("fetch", {})]} \cup
         (IF path.dir \notin store THEN {}
          ELSE IF path.dir[path.name] = Absent
               THEN {[file |-> Absent, err |-> Err("notfound", {ArtifactOf(path.name)})]}
               ELSE {[file |-> path.dir[path.name], err |-> NoErr]})

\* errors.Wrap(err, "unable to read genesis file"), lines 227 and 240
WrapRead(err) == Err("read", {"genesis"})

\* the identifiers a caller may pass to Join
JoinIDs == {CidOf(d) : d \in store} \cup {BadID}

\* Join returns nil and an error; at notes the statement that failed
JoinFail(err) == join' = [join EXCEPT !.step = "done", !.err = err, !.at = join.step]

\* a caller enters Join (line 216)
JoinCall ==
    /\ join.step = "idle" /\ ops < MaxOps
    /\ \E id \in JoinIDs : join' = [NoJoin EXCEPT !.step = "parse", !.id = id]
    /\ ops' = ops + 1
    /\ UNCHANGED <<store, published, pub>>

\* lines 217-220 and 230-233: the path of the manifest, then of the genesis
JoinParse ==
    /\ join.step = "parse"
    /\ LET r == ParsePath(join.id, JoinNames[join.a]) IN
         IF r.err.kind # "none" THEN JoinFail(r.err)
         ELSE join' = [join EXCEPT !.step = "get", !.path = r.path]
    /\ UNCHANGED <<store, published, pub, ops>>

\* the mutant of JoinGet: the error of Get is dropped
JoinGet_ErrorDropped ==
    /\ join.step = "get"
    /\ \E r \in Get(join.path) : join' = [join EXCEPT !.step = "read", !.file = r.file]
    /\ UNCHANGED <<store, published, pub, ops>>

\* lines 221-224 and 234-237: s.api.Unixfs().Get of the manifest, of the genesis
JoinGet ==
    /\ join.step = "get"
    /\ \E r \in Get(join.path) :
           IF r.err.kind # "none" THEN JoinFail(r.err)
           ELSE join' = [join EXCEPT !.step = "read", !.file = r.file]
    /\ UNCHANGED <<store, published, pub, ops>>

\* lines 225-228 and 238-241: ioutil.ReadAll of the file; the read may fail
\* midway (the blocks are fetched as they are read)
JoinRead ==
    /\ join.step = "read"
    /\ \/ JoinFail(WrapRead(Err("fetch", {})))
       \/ /\ join.a = "manifest"
          /\ join' = [join EXCEPT !.manifestData = join.file, !.file = Absent,
                                  !.a = "genesis", !.step = "parse"]
       \/ /\ join.a = "genesis"
          /\ join' = [join EXCEPT !.genesisData = join.file, !.file = Absent,
                                  !.a = "image", !.step = "image"]
    /\ UNCHANGED <<store, published, pub, ops>>

\* the mutant of JoinImage: the error of the image's Get is not tested either
JoinImage_GetUnchecked ==
    /\ join.step = "image"
    /\ LET r == ParsePath(join.id, JoinNames[join.a]) IN
         \E g \in Get(r.path) :
             IF g.err.kind = "panic" THEN join' = [join EXCEPT !.step = "panic"]
             ELSE join' = [join EXCEPT !.step = "done",
                              !.info = NetworkInfo(join.manifestData, join.genesisData, g.file)]
    /\ UNCHANGED <<store, published, pub, ops>>

\* lines 243-253: the path of the image, its error overwritten untested by
\* line 244; Get of that path; the NetworkInfo
JoinImage ==
    /\ join.step = "image"
    /\ LET r == ParsePath(join.id, JoinNames[join.a]) IN
         \E g \in Get(r.path) :
             IF g.err.kind = "panic" THEN join' = [join EXCEPT !.step = "panic"]
             ELSE IF g.err.kind # "none" THEN JoinFail(g.err)
             ELSE join' = [join EXCEPT !.step = "done",
                              !.info = NetworkInfo(join.manifestData, join.genesisData, g.file)]
    /\ UNCHANGED <<store, published, pub, ops>>

\* the caller takes the result; the Server is ready for another Join
JoinTaken ==
    /\ join.step = "done"
    /\ join' = NoJoin
    /\ UNCHANGED <<store, published, pub, ops>>

\* what Part III leaves alone
beyondContent == <<lifeVars, peersVars, announceVars>>

NextContent ==
    \/ PublishCall /\ UNCHANGED beyondContent
    \/ PublishTempDir /\ UNCHANGED beyondContent
    \/ PublishLink /\ UNCHANGED beyondContent
    \/ PublishAdd /\ UNCHANGED beyondContent
    \/ JoinCall /\ UNCHANGED beyondContent
    \/ JoinParse /\ UNCHANGED beyondContent
    \/ JoinGet /\ UNCHANGED beyondContent
    \/ JoinRead /\ UNCHANGED beyondContent
    \/ JoinImage /\ UNCHANGED beyondContent
    \/ JoinTaken /\ UNCHANGED beyondContent

SpecContent == InitContent /\ [][NextContent]_vars

\* ================================================================ Part IV
\* One Announce call on the started instance 1, with the clock its contexts
\* are measured against, and the handler it registers serving inbound streams.
MaxTime == 12          \* seconds the clock runs
MaxStreams == 2        \* inbound streams on the protocol
ProvideTimeout == 10   \* 10*time.Second, line 277

\* the contexts a caller may pass: no deadline, one sooner than the timeout of
\* line 277, one later
CallerContexts == {Background, WithDeadline(4), WithDeadline(30)}

\* the records a caller may pass for the local node
LocalRecords ==
    {PeerInfo(Self, NilSlice, 26656), PeerInfo(Self, Slice(<<"192.168.0.9">>), 26656)}

\* The state of instance 1 when its caller enters Announce: started, bootstrap
\* over
AnnounceEntered ==
    /\ root = [s \in Servers |-> 1]
    /\ node = [s \in Servers |-> IF s = 1 THEN "live" ELSE "nil"]
    /\ connectedCh = [s \in Servers |-> IF s = 1 THEN "closed" ELSE "open"]
    /\ handler = [s \in Servers |-> FALSE]
    /\ repoLock = [r \in Roots |-> IF r = 1 THEN 1 ELSE 0]
    /\ initialized = [r \in Roots |-> r = 1]
    /\ swarm = [r \in Roots |-> IF r = 1 THEN 1 ELSE 0]
    /\ plugins = [s \in Servers |-> s = 1]
    /\ startPc = [s \in Servers |-> "idle"]
    /\ lastStart = [s \in Servers |-> IF s = 1 THEN "ok" ELSE "none"]
    /\ online = [s \in Servers |-> s = 1]
    /\ starts = [s \in Servers |-> IF s = 1 THEN 1 ELSE 0]
    /\ boot = [s \in Servers |-> <<>>]
    /\ bootDone = [s \in Servers |-> s = 1]
    /\ closes = [s \in Servers |-> IF s = 1 THEN 1 ELSE 0]
    /\ panicked = [s \in Servers |-> FALSE]
    /\ annPc = [s \in Servers |-> IF s = 1 THEN "wait" ELSE "idle"]
    /\ annLog = [s \in Servers |-> <<>>]
    /\ annRes = [s \in Servers |-> "none"]
    /\ prsPc = [s \in Servers |-> "idle"]
    /\ findIssued = [s \in Servers |-> 0]
    /\ calls = 1

InitAnnounce ==
    /\ AnnounceEntered
    /\ NoPeersTask
    /\ store = {} /\ NoContentCall
    /\ now = 0
    /\ ctx \in CallerContexts
    /\ cctx = NoCctx /\ provided = NotProvided
    /\ annPeer \in LocalRecords
    /\ inbound = <<>>

\* the deadline of context.WithTimeout(ctx, 10 s) made at time t for a parent
\* without an earlier deadline
CctxDeadline_ParentIgnored(t) == t + ProvideTimeout

\* the deadline of context.WithTimeout(ctx, 10*time.Second) made at time t: the
\* parent's when that is earlier
CctxDeadline(t) ==
    IF ctx.hasDeadline /\ ctx.deadline < t + ProvideTimeout THEN ctx.deadline
    ELSE t + ProvideTimeout

\* cctx.Done() is closed: the parent was cancelled or the deadline has come
CctxDone == cctx.made /\ (ctx.cancelled \/ now >= cctx.deadline)

\* line 277: cctx, cancel := context.WithTimeout(ctx, 10*time.Second)
AnnounceWithTimeout ==
    /\ annPc[1] = "provide" /\ ~cctx.made
    /\ cctx' = [made |-> TRUE, at |-> now, deadline |-> CctxDeadline(now)]
    /\ UNCHANGED <<lifeVars, peersVars, contentVars, now, ctx, provided, annPeer,
                   inbound>>

\* lines 279-282: s.dht.Provide(cctx, id, true) returns, and Announce with it:
\* nil only while cctx is not done
AnnounceProvide ==
    /\ cctx.made
    /\ AnnounceSecond(1)
    /\ annRes'[1] = "ok" => ~CctxDone
    /\ provided' = [returned |-> TRUE, at |-> now, cancelled |-> ctx.cancelled]
    /\ UNCHANGED <<peersVars, contentVars, now, ctx, cctx, annPeer, inbound>>

\* a second passes while the Announce call runs
Tick ==
    /\ now < MaxTime /\ annPc[1] # "idle"
    /\ now' = now + 1
    /\ UNCHANGED <<lifeVars, peersVars, contentVars, ctx, cctx, provided, annPeer,
                   inbound>>

\* the caller cancels the context it passed to Announce
CallerCancel ==
    /\ ~ctx.cancelled /\ annPc[1] # "idle"
    /\ ctx' = [ctx EXCEPT !.cancelled = TRUE]
    /\ UNCHANGED <<lifeVars, peersVars, contentVars, now, cctx, provided, annPeer,
                   inbound>>

\* a remote peer opens a stream on "/chainkit/0.1.0": the host runs the handler
\* of lines 268-275 on it
StreamOpened ==
    /\ handler[1] /\ Len(inbound) < MaxStreams
    /\ inbound' = Append(inbound, [pc |-> "encode", read |-> FALSE, written |-> <<>>,
                                   closed |-> FALSE])
    /\ UNCHANGED <<lifeVars, peersVars, contentVars, now, ctx, cctx, provided,
                   annPeer>>

\* the handler with stream.Close() after a successful Encode, not deferred
HandlerEncode_CloseNotDeferred(k) ==
    /\ k \in 1..Len(inbound) /\ inbound[k].pc = "encode"
    /\ \/ inbound' = [inbound EXCEPT ![k].pc = "return",
                         ![k].written = <<[kind |-> "json", doc |-> JsonEncode(annPeer)]>>]
       \/ \E w \in {<<>>, <<[kind |-> "garbage", doc |-> NoDoc]>>} :
              inbound' = [inbound EXCEPT ![k].pc = "done", ![k].written = w]
    /\ UNCHANGED <<lifeVars, peersVars, contentVars, now, ctx, cctx, provided,
                   annPeer>>

\* lines 270-274: json.NewEncoder(stream).Encode(peer): the record is written,
\* or the write fails (nothing, or a part of the document, is on the stream),
\* the error is logged and the handler returns
HandlerEncode(k) ==
    /\ k \in 1..Len(inbound) /\ inbound[k].pc = "encode"
    /\ \/ inbound' = [inbound EXCEPT ![k].pc = "return",
                         ![k].written = <<[kind |-> "json", doc |-> JsonEncode(annPeer)]>>]
       \/ \E w \in {<<>>, <<[kind |-> "garbage", doc |-> NoDoc]>>} :
              inbound' = [inbound EXCEPT ![k].pc = "return", ![k].written = w]
    /\ UNCHANGED <<lifeVars, peersVars, contentVars, now, ctx, cctx, provided,
                   annPeer>>

\* line 269: the deferred stream.Close() runs as the handler returns
HandlerClose(k) ==
    /\ k \in 1..Len(inbound) /\ inbound[k].pc = "return"
    /\ inbound' = [inbound EXCEPT ![k].pc = "done", ![k].closed = TRUE]
    /\ UNCHANGED <<lifeVars, peersVars, contentVars, now, ctx, cctx, provided,
                   annPeer>>

NextAnnounce ==
    \/ AnnounceWait(1) /\ UNCHANGED beyondLife
    \/ AnnounceDecode(1) /\ UNCHANGED beyondLife
    \/ AnnounceFirst(1) /\ UNCHANGED beyondLife
    \/ AnnounceWithTimeout
    \/ AnnounceProvide
    \/ Tick
    \/ CallerCancel
    \/ StreamOpened
    \/ \E k \in 1..MaxStreams : HandlerEncode(k)
    \/ \E k \in 1..MaxStreams : HandlerClose(k)

SpecAnnounce == InitAnnounce /\ [][NextAnnounce]_vars

\* ---------------------------------------------------------- Part I claims
Issued(s, what) == \E k \in 1..Len(annLog[s]) : annLog[s][k] = what

\* C1: after a successful Start the bootstrap task tries every entry peer and
\* then fires the readiness signal exactly once: a task that has made all its
\* attempts finds connectedCh open, closes it, and no close is ever executed on
\* a channel that was closed before.
C1_BootstrapFiresOnce ==
    \A s \in Servers :
        /\ closes[s] <= 1
        /\ \A i \in 1..Len(boot[s]) :
               boot[s][i] = NumBootstrapPeers => connectedCh[s] = "open"

C3_SecondStartFails ==
    [][\A s \in Servers :
          (/\ starts'[s] = starts[s] + 1
           /\ \E t \in Servers \ {s} : root[t] = root[s] /\ Live(t))
          => /\ lastStart'[s] = "AlreadyRunning"
             /\ startPc'[s] = "idle"
             /\ UNCHANGED <<root, node, connectedCh, handler, repoLock, initialized,
                            swarm, plugins, online, boot, bootDone, closes, panicked,
                            annPc, annLog, annRes, prsPc, findIssued, calls>>]_vars

\* C3 witness: a Start was refused while the other instance was live on the root
C3_Witness ==
    \E s \in Servers :
        /\ lastStart[s] = "AlreadyRunning" /\ startPc[s] = "idle" /\ node[s] = "nil"
        /\ \E t \in Servers \ {s} : root[t] = root[s] /\ Live(t) /\ online[t]

\* C4: at most one live overlay node per root, whatever the interleaving of the
\* Start and Stop calls of the instances
C4_OneLiveNodePerRoot ==
    \A r \in Roots : Cardinality({s \in Servers : root[s] = r /\ Live(s)}) <= 1

\* C4 witness: the race: one instance is live on the root while the other, having
\* passed its lock check before, is about to open the repository
C4_Witness ==
    \E s, t \in Servers :
        s # t /\ root[s] = root[t] /\ Live(s) /\ startPc[t] = "open"

\* C5: a Start that returned an error retains nothing: it holds no repository
\* lock, its node is not live and no bootstrap task of the instance runs.
C5_FailedStartRetainsNothing ==
    \A s \in Servers :
        (startPc[s] = "idle" /\ lastStart[s] \notin {"none", "running", "ok"})
        => /\ repoLock[root[s]] # s
           /\ ~Live(s)
           /\ boot[s] = <<>>

\* C8: in every Announce call the stream handler is registered before Provide
\* is issued
C8_HandlerBeforeProvide ==
    \A s \in Servers :
        /\ \A k \in 1..Len(annLog[s]) :
               annLog[s][k] = "provide" => \E j \in 1..(k - 1) : annLog[s][j] = "handler"
        /\ annPc[s] = "provide" => annLog[s] = <<"handler">>

\* C8 witness: an Announce call registered the handler, then provided, and succeeded
C8_Witness ==
    \E s \in Servers : annLog[s] = <<"handler", "provide">> /\ annRes[s] = "ok"

\* --------------------------------------------------------- Part II claims
\* the positions of out that hold a record obtained from peer id
From(id) == {i \in 1..Len(out) : out[i].from = id}

\* rec is the announced record up to IP addresses appended by the caller of Peers
IsPrefix(p, q) == Len(p) <= Len(q) /\ SubSeq(q, 1, Len(p)) = p
EqualsAnnounced(rec) ==
    /\ rec.NodeID = announced.NodeID
    /\ rec.TendermintP2PPort = announced.TendermintP2PPort
    /\ IsPrefix(announced.IP.elems, rec.IP.elems)

\* the providers taken so far that opened a stream and sent a JSON document
WellFormed == SelectSeq(hist, LAMBDA h : h.reply = "json")

\* C6: no record received from Peers carries the local node's identity as NodeID
C6_NeverEmitsSelf ==
    \A i \in 1..Len(out) : out[i].rec.NodeID # Self

\* C7 as claimed: when the search of B is over, B has received exactly one
\* record equal to the announced one
C7_ExactlyOneRecord ==
    pc = "done" => Cardinality({i \in 1..Len(out) : EqualsAnnounced(out[i].rec)}) = 1

\* C7 amended: B receives at most one record obtained from the announcer, and
\* that record equals the announced one up to the IPv4 addresses B appended
\* (NodeID and port as announced, the announced IPs first)
C7_AtMostOneFromAnnouncer ==
    /\ Cardinality(From(Announcer)) <= 1
    /\ \A i \in From(Announcer) :
           /\ EqualsAnnounced(out[i].rec)
           /\ out[i].rec.IP = Slice(AppendIP4(announced.IP.elems, out[i].addrs))

\* C7 witness: the search is over and B holds exactly one record of the announcer
C7_Witness ==
    /\ pc = "done"
    /\ Cardinality(From(Announcer)) = 1
    /\ \E i \in From(Announcer) : Len(out[i].rec.IP.elems) > Len(announced.IP.elems)

\* C9: a candidate whose stream cannot be opened or whose reply does not decode
\* does not end the sequence and contributes no record: the channel is closed
\* only when the provider channel is closed and drained, and what the caller
\* received is, in order, one record for each provider that sent a well-formed
\* reply (the one being sent excepted)
C9_FailuresAreSkipped ==
    /\ ch = "closed" => (pc = "done" /\ query = "closed" /\ peers = <<>>)
    /\ Len(out) = Len(WellFormed) - (IF pc = "send" THEN 1 ELSE 0)
    /\ \A i \in 1..Len(out) :
           /\ out[i].from = WellFormed[i].ID
           /\ out[i].rec = Complete(JsonDecode(out[i].doc), WellFormed[i].Addrs)

\* C9 witness: the sequence ended; a candidate that failed (stream not opened, or
\* reply not decoded) came before one whose record was received
C9_Witness ==
    /\ pc = "done"
    /\ \E i, j \in 1..Len(hist) :
           /\ i < j
           /\ hist[i].opened = "failed"
           /\ hist[j].reply = "json"
    /\ \E i, j \in 1..Len(hist) :
           /\ i < j
           /\ hist[i].reply = "garbage"
           /\ hist[j].reply = "json"
    /\ Len(out) = 1

\* C10: once the caller has cancelled ctx and stopped receiving, the task ends
\* and closes the channel wherever it stands: it is never left with nothing it
\* (or the DHT routine it waits on) can do.
C10_CancelEndsTask ==
    (ctxDone /\ ~reading /\ pc # "done") => ENABLED TaskStep

\* C11: once the 10 s of tctx have elapsed, with ctx itself not cancelled, the
\* task ends by itself wherever it stands: with the consumer not receiving and
\* whatever the candidates do, the task (or the DHT routine it waits on) always
\* has a step to take until it is done.
C11_TimeoutEndsTask ==
    (timedOut /\ ~ctxDone /\ ~reading /\ pc # "done") => ENABLED TaskStep

\* C12: when the task has finished, no stream it opened is still open
C12_StreamsReleased ==
    pc = "done" => streams = {}

\* a provider taken from the query whose fate is decided (the one the task is
\* about to open a stream to is not)
Settled(i) == ~(i = Len(hist) /\ pc = "open")

\* C17 as claimed: a stream exchange is attempted for every provider whose ID is
\* not the local one, whatever its address list; only self-matches are not tried
C17_EveryNonSelfAttempted ==
    \A i \in 1..Len(hist) :
        Settled(i) => ((hist[i].ID # Self) <=> (hist[i].opened # "no"))

\* C17 amended: a stream exchange is attempted exactly for the providers whose
\* ID is not the local one and whose address list is not empty
C17_AddressedNonSelfAttempted ==
    /\ \A i \in 1..Len(hist) :
           Settled(i) => ((hist[i].ID # Self /\ hist[i].Addrs # <<>>)
                            <=> (hist[i].opened # "no"))
    /\ pc = "open" => (cur.ID # Self /\ cur.Addrs # <<>>)

\* C17 witness: a self-match with addresses and a stranger without any were
\* passed over, and a candidate with addresses was tried
C17_Witness ==
    \E i, j, k \in 1..Len(hist) :
        /\ Settled(i) /\ Settled(j) /\ Settled(k)
        /\ hist[i].ID = Self /\ hist[i].Addrs # <<>> /\ hist[i].opened = "no"
        /\ hist[j].ID # Self /\ hist[j].Addrs = <<>> /\ hist[j].opened = "no"
        /\ hist[k].ID # Self /\ hist[k].opened = "yes"

\* the IPv4 values of an address list, in address order
IP4Values(addrs) ==
    LET sel == SelectSeq(addrs, LAMBDA a : a.proto = "ip4")
    IN  [k \in 1..Len(sel) |-> sel[k].value]

\* the "ips" of a JSON document, absent and null counted as empty
DocIPs(doc) == IF doc.ips.form = "array" THEN doc.ips.arr ELSE <<>>

\* the record the task makes of document doc received from a provider with addrs
Emitted(rec, doc, addrs) ==
    /\ rec.NodeID = doc.node_id
    /\ rec.TendermintP2PPort = doc.tendermint_p2p_port
    /\ ~rec.IP.isNil
    /\ rec.IP.elems = DocIPs(doc) \o IP4Values(addrs)

\* C18: every record received (and the one being sent) has NodeID and port as
\* in the reply, and a non-nil IP list: the reply's list followed by the IPv4
\* values of the provider's addresses in address order
C18_EmittedRecord ==
    /\ \A i \in 1..Len(out) : Emitted(out[i].rec, out[i].doc, out[i].addrs)
    /\ pc = "send" => Emitted(peer, wire.doc, cur.Addrs)

\* C18 witness: one record came from a reply without a list over addresses with
\* no IPv4 component, another from a reply with a list over mixed addresses
C18_Witness ==
    \E i, j \in 1..Len(out) :
        /\ out[i].doc.ips.form # "array" /\ IP4Values(out[i].addrs) = <<>>
        /\ out[i].addrs # <<>> /\ out[i].rec.IP = Slice(<<>>)
        /\ out[j].doc.ips.form = "array" /\ out[j].addrs = <<A4, A6, B4>>
        /\ Len(out[j].rec.IP.elems) = Len(out[j].doc.ips.arr) + 2

\* -------------------------------------------------------- Part III claims
\* C13: a Join that ends on an identifier whose content has a manifest and no
\* genesis returns no NetworkInfo and an error; unless the overlay failed to
\* deliver the manifest, the error is the resolver's not-found, naming genesis.
C13_NoGenesisFails ==
    (/\ join.step = "done" /\ join.id.ok /\ join.id.dir \in store
     /\ join.id.dir["chainkit.yml"] # Absent
     /\ join.id.dir["genesis.json"] = Absent)
    => /\ join.info = NoInfo
       /\ join.err.kind # "none"
       /\ join.err.kind \notin {"fetch", "read"} => join.err = Err("notfound", {"genesis"})

\* C13 witness: the manifest was read, the genesis was not found, Join failed
C13_Witness ==
    /\ join.step = "done" /\ join.manifestData = "t"
    /\ join.id.dir["genesis.json"] = Absent
    /\ join.err = Err("notfound", {"genesis"}) /\ join.info = NoInfo

\* C14: a NetworkInfo returned by Join on an identifier that Publish returned
\* holds the manifest, genesis and image that Publish call was given
C14_RoundTrip ==
    (join.step = "done" /\ join.err.kind = "none")
    => \A p \in published :
           p.id = join.id
           => join.info = NetworkInfo(p.src.manifest, p.src.genesis, p.src.image)

\* C14 witness: three different contents were published and joined
C14_Witness ==
    /\ join.step = "done" /\ join.err.kind = "none"
    /\ \E p \in published :
           /\ p.id = join.id
           /\ p.src = [manifest |-> "m", genesis |-> "g", image |-> "i"]
    /\ join.info = NetworkInfo("m", "g", "i")

\* C19: Join returns an error and no NetworkInfo, or no error and a NetworkInfo
\* with its manifest, genesis and image all there
C19_AllOrNothing ==
    join.step = "done"
    => \/ join.err.kind # "none" /\ join.info = NoInfo
       \/ /\ join.err.kind = "none" /\ join.info.present
          /\ join.info.Manifest # Absent
          /\ join.info.Genesis # Absent
          /\ join.info.Image # Absent

\* C19 witness: manifest and genesis were read, the image was not there, and
\* Join failed without a NetworkInfo
C19_Witness ==
    /\ join.step = "done" /\ join.at = "image"
    /\ join.manifestData # Absent /\ join.genesisData # Absent
    /\ join.err = Err("notfound", {"image"}) /\ join.info = NoInfo

\* C20: when Join failed in fetching or reading an artifact, its error names
\* that artifact and no other
C20_ErrorNamesArtifact ==
    (join.step = "done" /\ join.at \in {"get", "read", "image"})
    => join.err.names = {join.a}

\* --------------------------------------------------------- Part IV claims
\* C15: on every inbound stream the handler reads nothing, writes at most one
\* thing, which if it is a JSON document is the record given to Announce, and
\* the stream is closed once the handler has returned, whether the encoding
\* succeeded or failed, and not before.
C15_HandlerWritesOnceAndCloses ==
    \A k \in 1..Len(inbound) :
        /\ ~inbound[k].read
        /\ Len(inbound[k].written) <= 1
        /\ \A j \in 1..Len(inbound[k].written) :
               inbound[k].written[j].kind = "json"
               => inbound[k].written[j].doc = JsonEncode(annPeer)
        /\ inbound[k].pc = "done" => inbound[k].closed
        /\ inbound[k].closed => inbound[k].pc = "done"

\* C15 witness: the handler has served one stream with the record and failed to
\* encode on another, and both are closed
C15_Witness ==
    \E j, k \in 1..Len(inbound) :
        /\ inbound[j].pc = "done" /\ inbound[j].closed
        /\ inbound[j].written = <<[kind |-> "json", doc |-> JsonEncode(annPeer)]>>
        /\ inbound[k].pc = "done" /\ inbound[k].closed
        /\ inbound[k].written = <<>>

\* the Provide calls the current Announce call has issued
ProvideCalls == Len(SelectSeq(annLog[1], LAMBDA e : e = "provide"))

\* C16: Announce returns nil only if Provide returned before 10 seconds had
\* passed since line 277 and before the caller's deadline; once Provide has
\* returned, Announce has returned nil or the error, and Provide was called once
C16_SuccessOnlyInTime ==
    /\ annRes[1] = "ok"
       => /\ provided.returned
          /\ provided.at < cctx.at + ProvideTimeout
          /\ ctx.hasDeadline => provided.at < ctx.deadline
          /\ ~provided.cancelled
    /\ provided.returned => (annRes[1] \in {"ok", "provideErr"} /\ annPc[1] = "idle")
    /\ ProvideCalls <= 1
    /\ provided.returned => ProvideCalls = 1

\* C16 witness: the caller's deadline was the earlier one, it passed while
\* Provide was running, and Announce returned the error after one Provide
C16_Witness ==
    /\ provided.returned /\ annRes[1] = "provideErr"
    /\ ctx.hasDeadline /\ ctx.deadline < cctx.at + ProvideTimeout
    /\ provided.at >= ctx.deadline
    /\ ProvideCalls = 1

\* ------------------------------------------------ Part I and II, continued
\* C21: the channel Peers returned is closed once, by the task, exactly when the
\* task ends, however it ends: it is open while the task runs, closed in the
\* step that ends the task, and once closed it stays closed, the task takes no
\* further step and no record is received; a task that found no provider ends
\* with the channel closed and nothing received.
C21_ChannelClosedOnce ==
    [][/\ (ch = "open" /\ pc # "done") => ((pc' = "done") <=> (ch' = "closed"))
       /\ ch = "closed" => (ch' = "closed" /\ pc' = "done" /\ out' = out)
       /\ (pc' = "done" /\ hist' = <<>>) => (ch' = "closed" /\ out' = <<>>)]_vars

\* C21 witness: the caller cancelled, the task ended after a record was
\* received, and the channel is closed
C21_Witness ==
    /\ pc = "done" /\ ch = "closed"
    /\ ctxDone /\ Len(out) >= 1

\* C22: whatever Start and Stop calls are made on a Server, close is executed
\* on its readiness channel at most once
C22_ReadinessClosedOnce ==
    \A s \in Servers : closes[s] <= 1

====
